---------------------------- MODULE Spec2Model ----------------------------
(***************************************************************************)
(* Model of the MPM (Metra Potential Method) tool of src/app/page.tsx: the *)
(* React component MPMTool, its state (the useState cells) and its event   *)
(* handlers.  JavaScript runs each handler to completion, so every handler *)
(* is one atomic action.  The scheduling engine (validateTasks and         *)
(* calculateMPM) is a pure function of the task list and is written as     *)
(* operators that follow the loops of the source statement by statement.   *)
(***************************************************************************)
EXTENDS Integers, Sequences, FiniteSets, TLC

VARIABLES
    tasks,             \* useState<Task[]>             (page.tsx:34)
    calculatedTasks,   \* useState<CalculatedTask[]>   (page.tsx:36)
    projectDuration,   \* useState(0)                  (page.tsx:37)
    criticalPath,      \* useState<string[]>           (page.tsx:38)
    stepByStepMode,    \* useState(false)              (page.tsx:40)
    currentStep,       \* useState(0)                  (page.tsx:41)
    calculationSteps,  \* useState<any[]>              (page.tsx:42)
    alertMsg,          \* the alert() raised by the last handler, or NoAlert
    lastOp,            \* the last handler that ran and how it ended
    editsLeft          \* task-list edits still allowed in this behaviour

vars == <<tasks, calculatedTasks, projectDuration, criticalPath,
          stepByStepMode, currentStep, calculationSteps, alertMsg, lastOp, editsLeft>>

results == <<calculatedTasks, projectDuration, criticalPath>>
playback == <<stepByStepMode, currentStep, calculationSteps>>

---------------------------------------------------------------------------
(* Bounds of the model *)

\* longest task list (addTask is capped here; the code has no cap)
MaxTasks == 3
\* largest task duration
MaxDur == 2
\* number of task-list edits (addTask ... removePredecessor) in one behaviour
MaxEdits == 1
\* number of task-list edits in one behaviour that only edits (SpecEdits)
MaxEditSteps == 3
\* number of task-list edits in one behaviour that edits and calculates
\* (SpecEditCalc)
MaxEditsCalc == 2

\* String.fromCharCode(65 + k), k = 0, 1, ...
Letters == <<"A", "B", "C", "D", "E", "F">>
fromCharCode65(k) == Letters[k + 1]

Ids == {Letters[k] : k \in 1..MaxTasks}
\* values typed into the Duration input (min="1" does not stop the keyboard)
DurationInputs == (-1)..MaxDur
\* Number.parseInt(e.target.value) || 1
parseDuration(v) == IF v = 0 THEN 1 ELSE v
\* the durations updateTask can store
Durations == {parseDuration(v) : v \in DurationInputs}
\* values typed into the Name input
Names == {"X"}

---------------------------------------------------------------------------
(* Array helpers of JavaScript *)

Indices(s) == 1..Len(s)
Range(s) == {s[i] : i \in Indices(s)}

\* Array.prototype.includes
includes(s, x) == \E i \in Indices(s) : s[i] = x

\* Array.prototype.filter is SelectSeq (the order is kept); Array.prototype.map
\* is a function constructor over the indices.

\* tasks.find((t) => t.id === id): index of the first match, 0 for undefined
find(ts, id) ==
    IF \E i \in Indices(ts) : ts[i].id = id
    THEN CHOOSE i \in Indices(ts) : ts[i].id = id /\ \A j \in 1..(i - 1) : ts[j].id # id
    ELSE 0

\* Math.max(...xs) and Math.min(...xs) of a non-empty array of integers
MathMax(xs) == CHOOSE m \in Range(xs) : \A x \in Range(xs) : x <= m
MathMin(xs) == CHOOSE m \in Range(xs) : \A x \in Range(xs) : m <= x

ids(ts) == [i \in Indices(ts) |-> ts[i].id]

---------------------------------------------------------------------------
(* alert() messages *)

NoAlert == [kind |-> "none"]
AlertEmpty == [kind |-> "Please add at least one task"]
AlertCycle(id) == [kind |-> "Circular dependency detected involving task", task |-> id]
AlertDangling(id, pred) ==
    [kind |-> "references non-existent predecessor", task |-> id, pred |-> pred]
AlertForward == [kind |-> "Unable to calculate forward pass"]

---------------------------------------------------------------------------
(* validateTasks: depth-first search with a visited set and a recursion    *)
(* stack, then the dangling-reference scan.                                *)

RECURSIVE hasCycle(_, _, _)
RECURSIVE hasCyclePreds(_, _, _, _)

\* faulty variant of hasCycle: the task is not taken off the recursion stack
hasCycleNoPop(ts, taskId, st) ==
    IF taskId \in st.recursionStack THEN [cyc |-> TRUE, st |-> st]
    ELSE IF taskId \in st.visited THEN [cyc |-> FALSE, st |-> st]
    ELSE LET st1 == [visited |-> st.visited \cup {taskId},
                     recursionStack |-> st.recursionStack \cup {taskId}]
             t == find(ts, taskId)
         IN IF t # 0 THEN hasCyclePreds(ts, ts[t].predecessors, 1, st1)
            ELSE [cyc |-> FALSE, st |-> st1]

\* st = [visited, recursionStack]; the result carries the updated sets
hasCycle(ts, taskId, st) ==
    IF taskId \in st.recursionStack THEN [cyc |-> TRUE, st |-> st]
    ELSE IF taskId \in st.visited THEN [cyc |-> FALSE, st |-> st]
    ELSE LET st1 == [visited |-> st.visited \cup {taskId},
                     recursionStack |-> st.recursionStack \cup {taskId}]
             t == find(ts, taskId)
             r == IF t # 0 THEN hasCyclePreds(ts, ts[t].predecessors, 1, st1)
                  ELSE [cyc |-> FALSE, st |-> st1]
         IN IF r.cyc THEN r
            ELSE [cyc |-> FALSE,
                  st |-> [r.st EXCEPT !.recursionStack = @ \ {taskId}]]

\* for (const pred of task.predecessors) if (hasCycle(pred)) return true
hasCyclePreds(ts, preds, k, st) ==
    IF k > Len(preds) THEN [cyc |-> FALSE, st |-> st]
    ELSE LET r == hasCycle(ts, preds[k], st)
         IN IF r.cyc THEN r ELSE hasCyclePreds(ts, preds, k + 1, r.st)

\* faulty variant of cycleScan: the search starts from the first task only
cycleScanFirstOnly(ts, i, st) ==
    IF i > Len(ts) THEN [ok |-> TRUE, alert |-> NoAlert]
    ELSE LET r == hasCycle(ts, ts[i].id, st)
         IN IF r.cyc THEN [ok |-> FALSE, alert |-> AlertCycle(ts[i].id)]
            ELSE [ok |-> TRUE, alert |-> NoAlert]

\* for (const task of tasks) if (hasCycle(task.id)) { alert; return false }
RECURSIVE cycleScan(_, _, _)
cycleScan(ts, i, st) ==
    IF i > Len(ts) THEN [ok |-> TRUE, alert |-> NoAlert]
    ELSE LET r == hasCycle(ts, ts[i].id, st)
         IN IF r.cyc THEN [ok |-> FALSE, alert |-> AlertCycle(ts[i].id)]
            ELSE cycleScan(ts, i + 1, r.st)

\* faulty variant of danglingScan: only the first predecessor of a task is looked up
RECURSIVE danglingScanFirstPred(_, _, _)
danglingScanFirstPred(ts, i, k) ==
    IF i > Len(ts) THEN [ok |-> TRUE, alert |-> NoAlert]
    ELSE IF k > Len(ts[i].predecessors) \/ k > 1 THEN danglingScanFirstPred(ts, i + 1, 1)
    ELSE IF find(ts, ts[i].predecessors[k]) = 0
         THEN [ok |-> FALSE, alert |-> AlertDangling(ts[i].id, ts[i].predecessors[k])]
         ELSE danglingScanFirstPred(ts, i, k + 1)

\* the nested loops of the dangling-reference scan, in source order
RECURSIVE danglingScan(_, _, _)
danglingScan(ts, i, k) ==
    IF i > Len(ts) THEN [ok |-> TRUE, alert |-> NoAlert]
    ELSE IF k > Len(ts[i].predecessors) THEN danglingScan(ts, i + 1, 1)
    ELSE IF find(ts, ts[i].predecessors[k]) = 0
         THEN [ok |-> FALSE, alert |-> AlertDangling(ts[i].id, ts[i].predecessors[k])]
         ELSE danglingScan(ts, i, k + 1)

validateTasks(ts) ==
    LET c == cycleScan(ts, 1, [visited |-> {}, recursionStack |-> {}])
    IN IF ~c.ok THEN c ELSE danglingScan(ts, 1, 1)

---------------------------------------------------------------------------
(* calculateMPM: the working set of one invocation *)

\* faulty variant of InitCalculated: earlyFinish starts at the duration
InitCalculatedEager(ts) ==
    [i \in Indices(ts) |->
        [id |-> ts[i].id, name |-> ts[i].name, duration |-> ts[i].duration,
         predecessors |-> ts[i].predecessors,
         earlyStart |-> 0, earlyFinish |-> ts[i].duration,
         lateStart |-> 0, lateFinish |-> 0,
         totalFloat |-> 0, isCritical |-> FALSE]]

\* tasks.map((task) => ({...task, earlyStart: 0, ...}))
InitCalculated(ts) ==
    [i \in Indices(ts) |->
        [id |-> ts[i].id, name |-> ts[i].name, duration |-> ts[i].duration,
         predecessors |-> ts[i].predecessors,
         earlyStart |-> 0, earlyFinish |-> 0,
         lateStart |-> 0, lateFinish |-> 0,
         totalFloat |-> 0, isCritical |-> FALSE]]

\* faulty variant of JsonClone: the copy lacks the last task
JsonCloneShort(calculated) == SubSeq(calculated, 1, Len(calculated) - 1)

\* JSON.parse(JSON.stringify(calculated)): a new array of new objects; every
\* field is a string, a finite integer, a boolean or an array of strings,
\* which JSON writes and reads back unchanged
JsonClone(calculated) ==
    [i \in Indices(calculated) |->
        [id |-> calculated[i].id, name |-> calculated[i].name,
         duration |-> calculated[i].duration,
         predecessors |-> [k \in Indices(calculated[i].predecessors) |->
                              calculated[i].predecessors[k]],
         earlyStart |-> calculated[i].earlyStart,
         earlyFinish |-> calculated[i].earlyFinish,
         lateStart |-> calculated[i].lateStart,
         lateFinish |-> calculated[i].lateFinish,
         totalFloat |-> calculated[i].totalFloat,
         isCritical |-> calculated[i].isCritical]]

\* faulty variant of Capture: the step keeps the live array itself
CaptureShared(w) == [tasks |-> w.calculated, shared |-> TRUE]

\* the tasks field of a new step (lines 205, 229, ...): a deep copy, which no
\* later assignment to calculated reaches.  shared tells whether the field is
\* the live array (it never is in the source).
Capture(w) == [tasks |-> JsonClone(w.calculated), shared |-> FALSE]

\* steps.push({step: stepNumber++, title, description, tasks, highlight});
\* w.shared is the set of steps whose tasks field is the live array
Push(w, title, description, highlight) ==
    LET c == Capture(w)
    IN [w EXCEPT !.steps = Append(@, [step |-> w.stepNumber, title |-> title,
                                      description |-> description,
                                      tasks |-> c.tasks,
                                      highlight |-> highlight]),
                 !.shared = IF c.shared THEN @ \cup {Len(w.steps) + 1} ELSE @,
                 !.stepNumber = @ + 1]

\* what the steps hold once the engine has made its last assignment: a step
\* that shares the live array shows the array as it is at the end
Settle(w) ==
    [w EXCEPT !.steps = [k \in Indices(w.steps) |->
                            IF k \in w.shared
                            THEN [w.steps[k] EXCEPT !.tasks = w.calculated]
                            ELSE w.steps[k]]]

\* lines 190-212: steps, calculated, the first step, the loop variables
\* faulty variant of InitWork: the processed set outlives the invocation
InitWorkStale(ts) ==
    Push([calculated |-> InitCalculated(ts), steps |-> <<>>, stepNumber |-> 1,
          shared |-> {},
          processedTasks |-> Range(ids(calculatedTasks)), processedBackward |-> {},
          iterations |-> 0, maxIterations |-> Len(ts) * 2,
          progressMade |-> FALSE, aborted |-> FALSE, fallback |-> FALSE,
          forwardRounds |-> 0, backwardRounds |-> 0, maxEarlyFinish |-> 0],
         <<"Initialize Tasks">>, <<"Set all values to 0">>, <<>>)

InitWork(ts) ==
    Push([calculated |-> InitCalculated(ts), steps |-> <<>>, stepNumber |-> 1,
          shared |-> {},
          processedTasks |-> {}, processedBackward |-> {},
          iterations |-> 0, maxIterations |-> Len(ts) * 2,
          progressMade |-> FALSE, aborted |-> FALSE, fallback |-> FALSE,
          forwardRounds |-> 0, backwardRounds |-> 0, maxEarlyFinish |-> 0],
         <<"Initialize Tasks">>, <<"Set all values to 0">>, <<>>)

---------------------------------------------------------------------------
(* Forward pass, lines 214-268 *)

\* faulty variant of PredEarlyFinish: the early start of the predecessors
PredEarlyStart(calculated, preds) ==
    [k \in Indices(preds) |-> calculated[find(calculated, preds[k])].earlyStart]

\* early finish of the predecessors, through calculated.find
PredEarlyFinish(calculated, preds) ==
    [k \in Indices(preds) |-> calculated[find(calculated, preds[k])].earlyFinish]

\* faulty variant of EarlyStartOf: the minimum instead of the maximum
EarlyStartOfMin(calculated, task) ==
    IF Len(task.predecessors) = 0 THEN 0
    ELSE MathMin(PredEarlyFinish(calculated, task.predecessors))

\* task.earlyStart of a ready task (lines 223-239)
EarlyStartOf(calculated, task) ==
    IF Len(task.predecessors) = 0 THEN 0
    ELSE MathMax(PredEarlyFinish(calculated, task.predecessors))

\* faulty variant of EarlyFinishOf: every task takes one time unit
EarlyFinishOfUnit(task) == task.earlyStart + 1

\* task.earlyFinish = task.earlyStart + task.duration (line 249)
EarlyFinishOf(task) == task.earlyStart + task.duration

\* the body of `for (const task of calculated)` for the task at index i
ForwardTask(w, i) ==
    LET task == w.calculated[i]
        allPredecessorsProcessed ==
            \A k \in Indices(task.predecessors) : task.predecessors[k] \in w.processedTasks
    IN IF task.id \in w.processedTasks THEN w
       ELSE IF ~allPredecessorsProcessed THEN w
       ELSE LET es == EarlyStartOf(w.calculated, task)
                w1 == Push([w EXCEPT !.calculated[i].earlyStart = es],
                           <<"Forward Pass - Task", task.id>>,
                           IF Len(task.predecessors) = 0
                           THEN <<"no predecessors, so Early Start = 0">>
                           ELSE <<"Early Start = max(Early Finish of predecessors)",
                                  task.predecessors, es>>,
                           IF Len(task.predecessors) = 0 THEN <<task.id>>
                           ELSE <<task.id>> \o task.predecessors)
                ef == EarlyFinishOf(w1.calculated[i])
                w2 == Push([w1 EXCEPT !.calculated[i].earlyFinish = ef],
                           <<"Forward Pass - Task Finish", task.id>>,
                           <<"Early Finish = Early Start + Duration", es, task.duration, ef>>,
                           <<task.id>>)
            IN [w2 EXCEPT !.processedTasks = @ \cup {task.id},
                          !.progressMade = TRUE]

RECURSIVE ForwardRound(_, _)
ForwardRound(w, i) ==
    IF i > Len(w.calculated) THEN w ELSE ForwardRound(ForwardTask(w, i), i + 1)

\* faulty variant of ForwardLoop: one sweep over the list instead of the loop
ForwardLoopOnce(w) ==
    [ForwardRound([w EXCEPT !.progressMade = FALSE], 1)
        EXCEPT !.iterations = @ + 1, !.forwardRounds = @ + 1]

\* faulty variant of ForwardLoop: a round without progress is not detected
RECURSIVE ForwardLoopNoStall(_)
ForwardLoopNoStall(w) ==
    IF Cardinality(w.processedTasks) < Len(w.calculated) /\ w.iterations < w.maxIterations
    THEN LET r == ForwardRound([w EXCEPT !.progressMade = FALSE], 1)
         IN ForwardLoopNoStall([r EXCEPT !.iterations = @ + 1, !.forwardRounds = @ + 1])
    ELSE w

\* while (processedTasks.size < calculated.length && iterations < maxIterations)
RECURSIVE ForwardLoop(_)
ForwardLoop(w) ==
    IF Cardinality(w.processedTasks) < Len(w.calculated) /\ w.iterations < w.maxIterations
    THEN LET r == ForwardRound([w EXCEPT !.progressMade = FALSE], 1)
         IN IF ~r.progressMade
            THEN [r EXCEPT !.aborted = TRUE, !.forwardRounds = @ + 1]
            ELSE ForwardLoop([r EXCEPT !.iterations = @ + 1, !.forwardRounds = @ + 1])
    ELSE w

\* lines 270-280: maxEarlyFinish, the Project Duration step, iterations = 0
ProjectDurationStep(w) ==
    LET maxEarlyFinish == MathMax([i \in Indices(w.calculated) |-> w.calculated[i].earlyFinish])
    IN [Push(w, <<"Project Duration">>,
             <<"Project Duration = max(Early Finish of all tasks)", maxEarlyFinish>>,
             ids(SelectSeq(w.calculated, LAMBDA t : t.earlyFinish = maxEarlyFinish)))
          EXCEPT !.maxEarlyFinish = maxEarlyFinish, !.iterations = 0]

---------------------------------------------------------------------------
(* Backward pass, lines 282-335 *)

\* calculated.filter((t) => t.predecessors.includes(task.id))
successorsOf(calculated, task) ==
    SelectSeq(calculated, LAMBDA t : includes(t.predecessors, task.id))

\* faulty variant of TerminalLateFinish: the task's own early finish
TerminalLateFinishOwn(w, i) == w.calculated[i].earlyFinish

\* lateFinish of the task at index i, which has no successors (line 285)
TerminalLateFinish(w, i) == w.maxEarlyFinish

\* faulty variant of LateStartOf: the duration added instead of subtracted
LateStartOfPlus(task) == task.lateFinish + task.duration

\* task.lateStart = task.lateFinish - task.duration (lines 286, 310, 328)
LateStartOf(task) == task.lateFinish - task.duration

\* faulty variant of TerminalTask: no step is recorded for a final task
TerminalTaskNoStep(w, i) ==
    LET task == w.calculated[i]
        hasSuccessors == \E j \in Indices(w.calculated) :
                             includes(w.calculated[j].predecessors, task.id)
    IN IF hasSuccessors THEN w
       ELSE LET w1 == [w EXCEPT !.calculated[i].lateFinish = TerminalLateFinish(w, i)]
            IN [w1 EXCEPT !.calculated[i].lateStart = LateStartOf(w1.calculated[i]),
                          !.processedBackward = @ \cup {task.id}]

\* faulty variant of TerminalTask: the final task is not marked as processed
TerminalTaskUnmarked(w, i) ==
    LET task == w.calculated[i]
        hasSuccessors == \E j \in Indices(w.calculated) :
                             includes(w.calculated[j].predecessors, task.id)
    IN IF hasSuccessors THEN w
       ELSE LET w1 == [w EXCEPT !.calculated[i].lateFinish = TerminalLateFinish(w, i)]
                w2 == [w1 EXCEPT !.calculated[i].lateStart = LateStartOf(w1.calculated[i])]
            IN Push(w2, <<"Backward Pass - Task", task.id>>,
                    <<"final task. Late Finish = Project Duration",
                      w2.calculated[i].lateFinish, task.duration, w2.calculated[i].lateStart>>,
                    <<task.id>>)

\* the body of calculated.forEach for the task at index i (lines 283-295)
TerminalTask(w, i) ==
    LET task == w.calculated[i]
        hasSuccessors == \E j \in Indices(w.calculated) :
                             includes(w.calculated[j].predecessors, task.id)
    IN IF hasSuccessors THEN w
       ELSE LET w1 == [w EXCEPT !.calculated[i].lateFinish = TerminalLateFinish(w, i)]
                w2 == [w1 EXCEPT !.calculated[i].lateStart = LateStartOf(w1.calculated[i]),
                                 !.processedBackward = @ \cup {task.id}]
            IN Push(w2, <<"Backward Pass - Task", task.id>>,
                    <<"final task. Late Finish = Project Duration",
                      w2.calculated[i].lateFinish, task.duration, w2.calculated[i].lateStart>>,
                    <<task.id>>)

RECURSIVE TerminalPass(_, _)
TerminalPass(w, i) ==
    IF i > Len(w.calculated) THEN w ELSE TerminalPass(TerminalTask(w, i), i + 1)

\* faulty variant of LateFinishOf: the maximum instead of the minimum
LateFinishOfMax(successors) ==
    MathMax([k \in Indices(successors) |-> successors[k].lateStart])

\* Math.min(...successors.map((succ) => succ.lateStart)) (line 308)
LateFinishOf(successors) ==
    MathMin([k \in Indices(successors) |-> successors[k].lateStart])

\* the body of `for (const task of calculated)` of the backward loop
BackwardTask(w, i) ==
    LET task == w.calculated[i]
        successors == successorsOf(w.calculated, task)
        allSuccessorsProcessed ==
            \A k \in Indices(successors) : successors[k].id \in w.processedBackward
    IN IF task.id \in w.processedBackward THEN w
       ELSE IF ~(allSuccessorsProcessed /\ Len(successors) > 0) THEN w
       ELSE LET minLS == LateFinishOf(successors)
                w1 == [w EXCEPT !.calculated[i].lateFinish = minLS]
                w2 == [w1 EXCEPT !.calculated[i].lateStart = LateStartOf(w1.calculated[i]),
                                 !.processedBackward = @ \cup {task.id},
                                 !.progressMade = TRUE]
            IN Push(w2, <<"Backward Pass - Task", task.id>>,
                    <<"Late Finish = min(Late Start of successors)", ids(successors),
                      minLS, task.duration, w2.calculated[i].lateStart>>,
                    <<task.id>> \o ids(successors))

RECURSIVE BackwardRound(_, _)
BackwardRound(w, i) ==
    IF i > Len(w.calculated) THEN w ELSE BackwardRound(BackwardTask(w, i), i + 1)

\* lines 324-333: the fallback for tasks left unresolved
RECURSIVE Fallback(_, _)
Fallback(w, i) ==
    IF i > Len(w.calculated) THEN w
    ELSE IF w.calculated[i].id \in w.processedBackward THEN Fallback(w, i + 1)
    ELSE LET w1 == [w EXCEPT !.calculated[i].lateFinish = w.maxEarlyFinish]
             w2 == [w1 EXCEPT !.calculated[i].lateStart = LateStartOf(w1.calculated[i]),
                              !.processedBackward = @ \cup {w.calculated[i].id},
                              !.fallback = TRUE]
         IN Fallback(w2, i + 1)

\* while (processedBackward.size < calculated.length && iterations < maxIterations)
RECURSIVE BackwardLoop(_)
BackwardLoop(w) ==
    IF Cardinality(w.processedBackward) < Len(w.calculated) /\ w.iterations < w.maxIterations
    THEN LET r == BackwardRound([w EXCEPT !.progressMade = FALSE], 1)
         IN IF ~r.progressMade /\ Cardinality(r.processedBackward) < Len(r.calculated)
            THEN Fallback([r EXCEPT !.backwardRounds = @ + 1], 1)
            ELSE BackwardLoop([r EXCEPT !.iterations = @ + 1, !.backwardRounds = @ + 1])
    ELSE w

---------------------------------------------------------------------------
(* Float and criticality, lines 337-350 *)

\* faulty variant of TotalFloatOf: the operands swapped
TotalFloatOfSwapped(task) == task.earlyStart - task.lateStart

\* task.totalFloat = task.lateStart - task.earlyStart
TotalFloatOf(task) == task.lateStart - task.earlyStart

\* task.isCritical = task.totalFloat === 0
IsCriticalOf(task) == task.totalFloat = 0

\* faulty variant of FloatPass: the last step is pushed before the float loop
FloatPassEarlyStep(w) ==
    LET c1 == [i \in Indices(w.calculated) |->
                  [w.calculated[i] EXCEPT !.totalFloat = TotalFloatOf(w.calculated[i])]]
        c2 == [i \in Indices(c1) |-> [c1[i] EXCEPT !.isCritical = IsCriticalOf(c1[i])]]
    IN [Push(w, <<"Calculate Total Float">>,
             <<"Total Float = Late Start - Early Start">>,
             ids(SelectSeq(c2, LAMBDA t : t.isCritical)))
          EXCEPT !.calculated = c2]

FloatPass(w) ==
    LET c1 == [i \in Indices(w.calculated) |->
                  [w.calculated[i] EXCEPT !.totalFloat = TotalFloatOf(w.calculated[i])]]
        c2 == [i \in Indices(c1) |-> [c1[i] EXCEPT !.isCritical = IsCriticalOf(c1[i])]]
    IN Push([w EXCEPT !.calculated = c2],
            <<"Calculate Total Float">>,
            <<"Total Float = Late Start - Early Start">>,
            ids(SelectSeq(c2, LAMBDA t : t.isCritical)))

\* faulty variant of CriticalOf: no filter
CriticalOfAll(calculated) == ids(calculated)

\* calculated.filter((task) => task.isCritical).map((task) => task.id)
CriticalOf(calculated) == ids(SelectSeq(calculated, LAMBDA task : task.isCritical))

\* Math.max(...step.tasks.map((task) => task.earlyFinish))
MaxEFOf(calculated) == MathMax([i \in Indices(calculated) |-> calculated[i].earlyFinish])

\* faulty variant of RunEngine: the final tasks are handled before the
\* project duration is determined
RunEngineEarlyFinals(ts) ==
    LET wf == ForwardLoop(InitWork(ts))
    IN IF wf.aborted THEN wf
       ELSE Settle(FloatPass(BackwardLoop(ProjectDurationStep(TerminalPass(wf, 1)))))

\* the try block of calculateMPM up to the mode dispatch (lines 189-350);
\* aborted = the forward pass returned at line 265
RunEngine(ts) ==
    LET wf == ForwardLoop(InitWork(ts))
    IN IF wf.aborted THEN wf
       ELSE Settle(FloatPass(BackwardLoop(TerminalPass(ProjectDurationStep(wf), 1))))

\* how an invocation of calculateMPM on ts ends
Outcome(ts) ==
    IF Len(ts) = 0 THEN [outcome |-> "empty", alert |-> AlertEmpty]
    ELSE LET v == validateTasks(ts)
         IN IF ~v.ok THEN [outcome |-> "invalid", alert |-> v.alert]
            ELSE IF RunEngine(ts).aborted
                 THEN [outcome |-> "forwardAbort", alert |-> AlertForward]
                 ELSE [outcome |-> "published", alert |-> NoAlert]

---------------------------------------------------------------------------
(* The initial task list: data.tasks2 || [] of the mock module, which is   *)
(* any task list; here every list of at most MaxTasks tasks named A, B, .. *)
(* in order, as addTask names them, each with the duration addTask gives   *)
(* and any predecessor set over Ids (so cycles, self-references and        *)
(* dangling references occur).  Other durations, names and identifier      *)
(* patterns come from the editing handlers.                                *)

\* the identifiers of S as an array, in alphabetical order
RECURSIVE SeqOfIds(_, _)
SeqOfIds(S, k) ==
    IF k > Len(Letters) THEN <<>>
    ELSE (IF Letters[k] \in S THEN <<Letters[k]>> ELSE <<>>) \o SeqOfIds(S, k + 1)

PredLists == {SeqOfIds(S, 1) : S \in SUBSET Ids}

\* duration: 1 of addTask
DefaultDuration == 1

InitTaskLists ==
    UNION {{[i \in 1..n |-> [id |-> Letters[i], name |-> Letters[i],
                             duration |-> DefaultDuration, predecessors |-> p[i]]] :
               p \in [1..n -> PredLists]} :
           n \in 0..MaxTasks}

Op(name, outcome) == [op |-> name, outcome |-> outcome]

Init ==
    /\ tasks \in InitTaskLists
    /\ calculatedTasks = <<>>
    /\ projectDuration = 0
    /\ criticalPath = <<>>
    /\ stepByStepMode = FALSE
    /\ currentStep = 0
    /\ calculationSteps = <<>>
    /\ alertMsg = NoAlert
    /\ lastOp = Op("init", "done")
    /\ editsLeft = MaxEdits

---------------------------------------------------------------------------
(* Editing handlers, lines 92-138 *)

ClearResults ==
    /\ calculatedTasks' = <<>>
    /\ criticalPath' = <<>>
    /\ projectDuration' = 0

\* the new task of addTask
NewTask(ts) ==
    LET newId == fromCharCode65(Len(ts))
    IN [id |-> newId, name |-> newId, duration |-> DefaultDuration, predecessors |-> <<>>]

addTask ==
    /\ editsLeft > 0
    /\ Len(tasks) < MaxTasks
    /\ tasks' = Append(tasks, NewTask(tasks))
    /\ editsLeft' = editsLeft - 1
    /\ alertMsg' = NoAlert
    /\ lastOp' = Op("edit", "done")
    /\ UNCHANGED <<results, playback>>

\* removeTask that leaves the predecessor arrays alone
RemoveTaskOnly(ts, id) == SelectSeq(ts, LAMBDA task : task.id # id)

\* tasks without the task id and without references to it
RemoveTaskFrom(ts, id) ==
    LET newTasks == SelectSeq(ts, LAMBDA task : task.id # id)
    IN [i \in Indices(newTasks) |->
           [newTasks[i] EXCEPT !.predecessors = SelectSeq(@, LAMBDA pred : pred # id)]]

\* the Trash button of a task entry; disabled when tasks.length <= 1
removeTask ==
    /\ editsLeft > 0
    /\ Len(tasks) > 1
    /\ \E i \in Indices(tasks) : tasks' = RemoveTaskFrom(tasks, tasks[i].id)
    /\ ClearResults
    /\ editsLeft' = editsLeft - 1
    /\ alertMsg' = NoAlert
    /\ lastOp' = Op("edit", "done")
    /\ UNCHANGED playback

UpdateName(ts, id, value) ==
    [i \in Indices(ts) |-> IF ts[i].id = id THEN [ts[i] EXCEPT !.name = value] ELSE ts[i]]

UpdateDuration(ts, id, value) ==
    [i \in Indices(ts) |-> IF ts[i].id = id THEN [ts[i] EXCEPT !.duration = value] ELSE ts[i]]

\* the Name and Duration inputs of a task entry
updateTask ==
    /\ editsLeft > 0
    /\ \E i \in Indices(tasks) :
          \/ \E value \in Names : tasks' = UpdateName(tasks, tasks[i].id, value)
          \/ \E value \in Durations : tasks' = UpdateDuration(tasks, tasks[i].id, value)
    /\ ClearResults
    /\ editsLeft' = editsLeft - 1
    /\ alertMsg' = NoAlert
    /\ lastOp' = Op("edit", "done")
    /\ UNCHANGED playback

\* the guard of addPredecessor: the first task with this id does not list it
CanAddPredecessor(ts, taskId, predecessor) ==
    LET t == find(ts, taskId)
    IN ~(t # 0 /\ includes(ts[t].predecessors, predecessor))

AddPredecessorTo(ts, taskId, predecessor) ==
    [i \in Indices(ts) |-> IF ts[i].id = taskId
                           THEN [ts[i] EXCEPT !.predecessors = Append(@, predecessor)]
                           ELSE ts[i]]

\* the options of the select of task entry i (lines 519-525)
Offered(ts, i) ==
    {ts[j].id : j \in {j \in Indices(ts) :
                          /\ ts[j].id # ts[i].id
                          /\ ~includes(ts[i].predecessors, ts[j].id)}}

addPredecessor ==
    /\ editsLeft > 0
    /\ \E i \in Indices(tasks) : \E predecessor \in Offered(tasks, i) :
          IF CanAddPredecessor(tasks, tasks[i].id, predecessor)
          THEN /\ tasks' = AddPredecessorTo(tasks, tasks[i].id, predecessor)
               /\ ClearResults
               /\ lastOp' = Op("edit", "done")
          ELSE /\ UNCHANGED <<tasks, results>>
               /\ lastOp' = Op("edit", "noop")
    /\ editsLeft' = editsLeft - 1
    /\ alertMsg' = NoAlert
    /\ UNCHANGED playback

RemovePredecessorFrom(ts, taskId, predecessor) ==
    [i \in Indices(ts) |-> IF ts[i].id = taskId
                           THEN [ts[i] EXCEPT !.predecessors =
                                                  SelectSeq(@, LAMBDA p : p # predecessor)]
                           ELSE ts[i]]

\* a click on a predecessor badge of a task entry
removePredecessor ==
    /\ editsLeft > 0
    /\ \E i \in Indices(tasks) : \E k \in Indices(tasks[i].predecessors) :
          tasks' = RemovePredecessorFrom(tasks, tasks[i].id, tasks[i].predecessors[k])
    /\ ClearResults
    /\ editsLeft' = editsLeft - 1
    /\ alertMsg' = NoAlert
    /\ lastOp' = Op("edit", "done")
    /\ UNCHANGED playback

---------------------------------------------------------------------------
(* calculateMPM(stepMode), lines 181-369.  Nothing in the try block throws  *)
(* once validateTasks has returned true (every predecessor that find looks *)
(* up exists), so the catch of lines 365-368 has no behaviour.             *)

\* faulty variant of FailedCall: the results are cleared as the editing handlers do
FailedCallClears == ClearResults /\ UNCHANGED playback

\* the early returns of lines 182-187 and 263-266: no setter is called
FailedCall == UNCHANGED <<results, playback>>

\* faulty variant of calculateMPM: full mode does not leave step mode
calculateMPMKeepsMode(stepMode) ==
    LET o == Outcome(tasks)
    IN /\ alertMsg' = o.alert
       /\ lastOp' = Op("calculateMPM", o.outcome)
       /\ UNCHANGED <<tasks, editsLeft>>
       /\ IF o.outcome # "published"
          THEN FailedCall
          ELSE LET w == RunEngine(tasks)
               IN IF stepMode
                  THEN /\ stepByStepMode' = TRUE
                       /\ calculationSteps' = w.steps
                       /\ currentStep' = 0
                       /\ calculatedTasks' = w.steps[1].tasks
                       /\ criticalPath' = <<>>
                       /\ projectDuration' = 0
                  ELSE /\ calculatedTasks' = w.calculated
                       /\ criticalPath' = CriticalOf(w.calculated)
                       /\ projectDuration' = w.maxEarlyFinish
                       /\ UNCHANGED <<stepByStepMode, currentStep, calculationSteps>>

calculateMPM(stepMode) ==
    LET o == Outcome(tasks)
    IN /\ alertMsg' = o.alert
       /\ lastOp' = Op("calculateMPM", o.outcome)
       /\ UNCHANGED <<tasks, editsLeft>>
       /\ IF o.outcome # "published"
          THEN FailedCall
          ELSE LET w == RunEngine(tasks)
               IN IF stepMode
                  THEN /\ stepByStepMode' = TRUE
                       /\ calculationSteps' = w.steps
                       /\ currentStep' = 0
                       /\ calculatedTasks' = w.steps[1].tasks
                       /\ criticalPath' = <<>>
                       /\ projectDuration' = 0
                  ELSE /\ stepByStepMode' = FALSE
                       /\ calculatedTasks' = w.calculated
                       /\ criticalPath' = CriticalOf(w.calculated)
                       /\ projectDuration' = w.maxEarlyFinish
                       /\ UNCHANGED <<currentStep, calculationSteps>>

calculateFull == calculateMPM(FALSE)
calculateStep == calculateMPM(TRUE)

---------------------------------------------------------------------------
(* Step playback, lines 371-412.  The Prev, Next and Exit buttons are      *)
(* rendered only in step mode (line 584).  currentStep is a 0-based index; *)
(* calculationSteps[currentStep] of the source is calculationSteps[currentStep + 1]. *)

\* faulty variant of NextIndex: the index is not advanced
NextIndexStuck == currentStep

\* const newStep = currentStep + 1 (line 373)
NextIndex == currentStep + 1

nextStep ==
    /\ stepByStepMode
    /\ IF currentStep < Len(calculationSteps) - 1
       THEN LET newStep == NextIndex
                step == calculationSteps[newStep + 1]
            IN /\ currentStep' = newStep
               /\ calculatedTasks' = step.tasks
               /\ IF newStep = Len(calculationSteps) - 1
                  THEN /\ criticalPath' = CriticalOf(step.tasks)
                       /\ projectDuration' = MaxEFOf(step.tasks)
                  ELSE UNCHANGED <<criticalPath, projectDuration>>
               /\ lastOp' = Op("nextStep", "done")
       ELSE /\ UNCHANGED <<currentStep, results>>
            /\ lastOp' = Op("nextStep", "noop")
    /\ alertMsg' = NoAlert
    /\ UNCHANGED <<tasks, stepByStepMode, calculationSteps, editsLeft>>

\* faulty variant of prevStep: criticalPath and projectDuration are kept
prevStepKeeps ==
    /\ stepByStepMode
    /\ IF currentStep > 0
       THEN LET newStep == currentStep - 1
                step == calculationSteps[newStep + 1]
            IN /\ currentStep' = newStep
               /\ calculatedTasks' = step.tasks
               /\ UNCHANGED <<criticalPath, projectDuration>>
               /\ lastOp' = Op("prevStep", "done")
       ELSE /\ UNCHANGED <<currentStep, results>>
            /\ lastOp' = Op("prevStep", "noop")
    /\ alertMsg' = NoAlert
    /\ UNCHANGED <<tasks, stepByStepMode, calculationSteps, editsLeft>>

prevStep ==
    /\ stepByStepMode
    /\ IF currentStep > 0
       THEN LET newStep == currentStep - 1
                step == calculationSteps[newStep + 1]
            IN /\ currentStep' = newStep
               /\ calculatedTasks' = step.tasks
               /\ criticalPath' = <<>>
               /\ projectDuration' = 0
               /\ lastOp' = Op("prevStep", "done")
       ELSE /\ UNCHANGED <<currentStep, results>>
            /\ lastOp' = Op("prevStep", "noop")
    /\ alertMsg' = NoAlert
    /\ UNCHANGED <<tasks, stepByStepMode, calculationSteps, editsLeft>>

\* faulty variant of FinalStep: the step that is displayed
FinalStepDisplayed == calculationSteps[currentStep + 1]

\* const finalStep = calculationSteps[calculationSteps.length - 1] (line 403)
FinalStep == calculationSteps[Len(calculationSteps)]

exitStepMode ==
    /\ stepByStepMode
    /\ stepByStepMode' = FALSE
    /\ IF Len(calculationSteps) > 0
       THEN LET finalStep == FinalStep
            IN /\ calculatedTasks' = finalStep.tasks
               /\ criticalPath' = CriticalOf(finalStep.tasks)
               /\ projectDuration' = MaxEFOf(finalStep.tasks)
       ELSE UNCHANGED results
    /\ alertMsg' = NoAlert
    /\ lastOp' = Op("exitStepMode", "done")
    /\ UNCHANGED <<tasks, currentStep, calculationSteps, editsLeft>>

---------------------------------------------------------------------------

Next ==
    \/ addTask
    \/ removeTask
    \/ updateTask
    \/ addPredecessor
    \/ removePredecessor
    \/ calculateFull
    \/ calculateStep
    \/ nextStep
    \/ prevStep
    \/ exitStepMode

Spec == Init /\ [][Next]_vars

---------------------------------------------------------------------------
(* calculateMPM as a function of the task list: the list is any array of   *)
(* tasks, in any order, with any durations, identifiers repeated or not,   *)
(* and the two Calculate buttons are pressed.                              *)

EngineTaskLists ==
    UNION {[1..n -> [id : Ids, name : Names, duration : Durations,
                     predecessors : PredLists]] :
           n \in 0..MaxTasks}

InitEngine ==
    /\ tasks \in EngineTaskLists
    /\ calculatedTasks = <<>>
    /\ projectDuration = 0
    /\ criticalPath = <<>>
    /\ stepByStepMode = FALSE
    /\ currentStep = 0
    /\ calculationSteps = <<>>
    /\ alertMsg = NoAlert
    /\ lastOp = Op("init", "done")
    /\ editsLeft = 0

NextEngine ==
    \/ calculateFull
    \/ calculateStep

SpecEngine == InitEngine /\ [][NextEngine]_vars

---------------------------------------------------------------------------
(* The task editor alone: the tool is started on a well-formed task list   *)
(* (distinct identifiers, every predecessor an existing other task, listed *)
(* once) and the list is edited, MaxEditSteps times at most.               *)

WellFormedLists ==
    {ts \in InitTaskLists :
        \A i \in Indices(ts) : \A k \in Indices(ts[i].predecessors) :
            /\ ts[i].predecessors[k] # ts[i].id
            /\ \E j \in Indices(ts) : ts[j].id = ts[i].predecessors[k]}

InitEdits ==
    /\ tasks \in WellFormedLists
    /\ calculatedTasks = <<>>
    /\ projectDuration = 0
    /\ criticalPath = <<>>
    /\ stepByStepMode = FALSE
    /\ currentStep = 0
    /\ calculationSteps = <<>>
    /\ alertMsg = NoAlert
    /\ lastOp = Op("init", "done")
    /\ editsLeft = MaxEditSteps

NextEdits ==
    \/ addTask
    \/ removeTask
    \/ updateTask
    \/ addPredecessor
    \/ removePredecessor

SpecEdits == InitEdits /\ [][NextEdits]_vars

\* the task editor and the Calculate buttons: a well-formed list is edited,
\* MaxEditsCalc times at most, and calculated, in any order
InitEditCalc ==
    /\ tasks \in WellFormedLists
    /\ calculatedTasks = <<>>
    /\ projectDuration = 0
    /\ criticalPath = <<>>
    /\ stepByStepMode = FALSE
    /\ currentStep = 0
    /\ calculationSteps = <<>>
    /\ alertMsg = NoAlert
    /\ lastOp = Op("init", "done")
    /\ editsLeft = MaxEditsCalc

NextEditCalc ==
    \/ NextEdits
    \/ calculateFull
    \/ calculateStep

SpecEditCalc == InitEditCalc /\ [][NextEditCalc]_vars

---------------------------------------------------------------------------
(* The tool started on the diamond task list A(3), B(2, after A),          *)
(* C(5, after A), D(1, after B and C), its four tasks listed in any order; *)
(* the list is calculated and played back, not edited.                     *)

DiamondTasks ==
    << [id |-> "A", name |-> "A", duration |-> 3, predecessors |-> <<>>],
       [id |-> "B", name |-> "B", duration |-> 2, predecessors |-> <<"A">>],
       [id |-> "C", name |-> "C", duration |-> 5, predecessors |-> <<"A">>],
       [id |-> "D", name |-> "D", duration |-> 1, predecessors |-> <<"B", "C">>] >>

\* the diamond with its tasks listed in any order
DiamondLists ==
    {[k \in Indices(DiamondTasks) |-> DiamondTasks[pi[k]]] :
        pi \in Permutations(Indices(DiamondTasks))}

InitDiamond ==
    /\ tasks \in DiamondLists
    /\ calculatedTasks = <<>>
    /\ projectDuration = 0
    /\ criticalPath = <<>>
    /\ stepByStepMode = FALSE
    /\ currentStep = 0
    /\ calculationSteps = <<>>
    /\ alertMsg = NoAlert
    /\ lastOp = Op("init", "done")
    /\ editsLeft = 0

NextDiamond ==
    \/ calculateFull
    \/ calculateStep
    \/ nextStep
    \/ prevStep
    \/ exitStepMode

SpecDiamond == InitDiamond /\ [][NextDiamond]_vars

---------------------------------------------------------------------------
(* Properties.  The predicates below are stated on the data alone (the     *)
(* task list, the published schedule, the alert), not through the engine's *)
(* own operators.                                                          *)

SetMax(S) == CHOOSE m \in S : \A x \in S : x <= m
SetMin(S) == CHOOSE m \in S : \A x \in S : m <= x

\* the last handler was a calculateMPM that reached the mode dispatch
JustPublished == lastOp = Op("calculateMPM", "published")
\* ... in full mode
JustPublishedFull == JustPublished /\ ~stepByStepMode

\* the computed schedule: the published list, or in step mode the last snapshot
Schedule ==
    IF stepByStepMode THEN calculationSteps[Len(calculationSteps)].tasks
    ELSE calculatedTasks

PredsIn(ct, i) == {j \in Indices(ct) : ct[j].id \in Range(ct[i].predecessors)}
SuccsIn(ct, i) == {j \in Indices(ct) : ct[i].id \in Range(ct[j].predecessors)}

\* identifiers reachable from the set S along predecessor references
RECURSIVE ReachFrom(_, _)
ReachFrom(ts, S) ==
    LET more == S \cup UNION {Range(ts[i].predecessors) :
                                 i \in {i \in Indices(ts) : ts[i].id \in S}}
    IN IF more = S THEN S ELSE ReachFrom(ts, more)

PredsOfId(ts, a) ==
    UNION {Range(ts[i].predecessors) : i \in {i \in Indices(ts) : ts[i].id = a}}
OnCycle(ts, a) == a \in ReachFrom(ts, PredsOfId(ts, a))
HasCycle(ts) == \E i \in Indices(ts) : OnCycle(ts, ts[i].id)
IsDangling(ts, i, p) ==
    /\ p \in Range(ts[i].predecessors)
    /\ \A j \in Indices(ts) : ts[j].id # p
HasDangling(ts) == \E i \in Indices(ts) : \E p \in Ids : IsDangling(ts, i, p)

CycleKind == "Circular dependency detected involving task"
DanglingKind == "references non-existent predecessor"

\* C1: after a successful calculateMPM every task without predecessors has
\* earlyStart = 0 and every other task has earlyStart = the maximum earlyFinish
\* of its predecessors.
C1_EarlyStart ==
    JustPublished =>
        \A i \in Indices(Schedule) :
            IF Schedule[i].predecessors = <<>>
            THEN Schedule[i].earlyStart = 0
            ELSE /\ PredsIn(Schedule, i) # {}
                 /\ Schedule[i].earlyStart =
                        SetMax({Schedule[j].earlyFinish : j \in PredsIn(Schedule, i)})

\* a task with two predecessors of different earlyFinish has been scheduled
C1_Witness ==
    /\ JustPublished
    /\ \E i \in Indices(Schedule) : \E j, k \in PredsIn(Schedule, i) :
          /\ Schedule[j].earlyFinish < Schedule[k].earlyFinish
          /\ Schedule[i].earlyStart = Schedule[k].earlyFinish

\* C2: after a successful calculateMPM every task that has a successor has
\* lateFinish = the minimum lateStart of its successors.
C2_LateFinish ==
    JustPublished =>
        \A i \in Indices(Schedule) :
            SuccsIn(Schedule, i) # {} =>
                Schedule[i].lateFinish =
                    SetMin({Schedule[j].lateStart : j \in SuccsIn(Schedule, i)})

\* a task with two successors of different lateStart has been scheduled
C2_Witness ==
    /\ JustPublished
    /\ \E i \in Indices(Schedule) : \E j, k \in SuccsIn(Schedule, i) :
          /\ Schedule[j].lateStart < Schedule[k].lateStart
          /\ Schedule[i].lateFinish = Schedule[j].lateStart

\* C3: the projectDuration published in full mode is the maximum earlyFinish
\* of all tasks, and in every computed schedule every task without successors
\* has lateFinish = that maximum.
C3_ProjectDuration ==
    LET maxEF == SetMax({Schedule[i].earlyFinish : i \in Indices(Schedule)})
    IN /\ JustPublishedFull => projectDuration = maxEF
       /\ JustPublished =>
              \A i \in Indices(Schedule) :
                  SuccsIn(Schedule, i) = {} => Schedule[i].lateFinish = maxEF

\* two terminal tasks, one of them finishing before the project does
C3_Witness ==
    /\ JustPublishedFull
    /\ \E i, j \in Indices(calculatedTasks) :
          /\ i # j
          /\ SuccsIn(calculatedTasks, i) = {} /\ SuccsIn(calculatedTasks, j) = {}
          /\ calculatedTasks[i].earlyFinish < projectDuration
          /\ calculatedTasks[j].earlyFinish = projectDuration

\* C4: in the published list every task has earlyFinish = earlyStart + duration
\* and lateStart = lateFinish - duration.
C4_Arithmetic ==
    JustPublished =>
        \A i \in Indices(Schedule) :
            /\ Schedule[i].earlyFinish = Schedule[i].earlyStart + Schedule[i].duration
            /\ Schedule[i].lateStart = Schedule[i].lateFinish - Schedule[i].duration

\* a task of duration 2 that does not start at 0, scheduled before the project end
C4_Witness ==
    /\ JustPublished
    /\ \E i \in Indices(Schedule) :
          /\ Schedule[i].duration = 2
          /\ Schedule[i].earlyStart > 0
          /\ SuccsIn(Schedule, i) # {}

\* C5: every task of the result has totalFloat = lateStart - earlyStart >= 0.
C5_TotalFloat ==
    JustPublished =>
        \A i \in Indices(Schedule) :
            /\ Schedule[i].totalFloat = Schedule[i].lateStart - Schedule[i].earlyStart
            /\ Schedule[i].totalFloat >= 0

\* a schedule with a task that has slack and one that has none
C5_Witness ==
    /\ JustPublished
    /\ \E i, j \in Indices(Schedule) :
          Schedule[i].totalFloat > 0 /\ Schedule[j].totalFloat = 0

\* C6: in every computed schedule isCritical holds exactly of the tasks with
\* totalFloat = 0, and the criticalPath published in full mode lists exactly the
\* critical identifiers.
C6_Critical ==
    LET crit == {i \in Indices(Schedule) : Schedule[i].isCritical}
    IN /\ JustPublished =>
              \A i \in Indices(Schedule) :
                  Schedule[i].isCritical <=> (Schedule[i].totalFloat = 0)
       /\ JustPublishedFull =>
              /\ Range(criticalPath) = {Schedule[i].id : i \in crit}
              /\ Len(criticalPath) = Cardinality(crit)

\* a published result with a critical and a non-critical task
C6_Witness ==
    /\ JustPublishedFull
    /\ \E i, j \in Indices(calculatedTasks) :
          /\ calculatedTasks[i].isCritical /\ ~calculatedTasks[j].isCritical
          /\ includes(criticalPath, calculatedTasks[i].id)

\* C7: when the predecessor graph has a cycle, calculateMPM stops at
\* validateTasks (with its cycle alert) and runs neither pass.
C7_CycleRejected ==
    (lastOp.op = "calculateMPM" /\ HasCycle(tasks)) =>
        /\ lastOp.outcome = "invalid"
        /\ alertMsg.kind = CycleKind

\* a rejected list whose cycle cannot be reached from the first task, and a
\* rejected list whose only cycle is a task listing itself
C7_Witness ==
    /\ lastOp = Op("calculateMPM", "invalid")
    /\ Len(tasks) = MaxTasks
    /\ \/ /\ ReachFrom(tasks, {tasks[1].id}) = {tasks[1].id}
          /\ OnCycle(tasks, tasks[2].id)
          /\ ~includes(tasks[2].predecessors, tasks[2].id)
       \/ /\ tasks[1].predecessors = <<>> /\ tasks[2].predecessors = <<>>
          /\ tasks[3].predecessors = <<tasks[3].id>>

\* C8 as amended: when some task lists a predecessor that no task has as its
\* identifier, calculateMPM stops at validateTasks and runs neither pass; if the
\* graph has no cycle, the alert names such a task and its missing predecessor.
C8_DanglingRejected ==
    (lastOp.op = "calculateMPM" /\ HasDangling(tasks)) =>
        /\ lastOp.outcome = "invalid"
        /\ ~HasCycle(tasks) =>
              /\ alertMsg.kind = DanglingKind
              /\ \E i \in Indices(tasks) :
                    tasks[i].id = alertMsg.task /\ IsDangling(tasks, i, alertMsg.pred)

\* an acyclic list with a dangling reference in second place has been rejected
C8_Witness ==
    /\ lastOp = Op("calculateMPM", "invalid")
    /\ ~HasCycle(tasks)
    /\ alertMsg.kind = DanglingKind
    /\ \E i \in Indices(tasks) :
          /\ Len(tasks[i].predecessors) = 2
          /\ ~IsDangling(tasks, i, tasks[i].predecessors[1])
          /\ IsDangling(tasks, i, tasks[i].predecessors[2])

\* C8 as stated: the alert always names the task and the missing predecessor.
C8_Original ==
    (lastOp.op = "calculateMPM" /\ HasDangling(tasks)) =>
        /\ lastOp.outcome = "invalid"
        /\ alertMsg.kind = DanglingKind
        /\ \E i \in Indices(tasks) :
              tasks[i].id = alertMsg.task /\ IsDangling(tasks, i, alertMsg.pred)

\* C9: the task named by the cycle alert is a member of a cycle.
C9_NamedTaskOnCycle ==
    alertMsg.kind = CycleKind => OnCycle(tasks, alertMsg.task)

\* C10: a calculateMPM on an empty list or on a list with a cycle or a dangling
\* reference changes none of tasks, calculatedTasks, projectDuration,
\* criticalPath, stepByStepMode, currentStep, calculationSteps.
C10_NoPartialState ==
    [][(/\ lastOp'.op = "calculateMPM"
        /\ (Len(tasks) = 0 \/ HasCycle(tasks) \/ HasDangling(tasks)))
       => UNCHANGED <<tasks, calculatedTasks, projectDuration, criticalPath,
                      stepByStepMode, currentStep, calculationSteps>>]_vars

\* a rejected calculateMPM in step mode, past the first step, a snapshot displayed
C10_Witness ==
    /\ lastOp.op = "calculateMPM"
    /\ lastOp.outcome \in {"empty", "invalid"}
    /\ stepByStepMode
    /\ currentStep > 0
    /\ calculatedTasks # <<>>

---------------------------------------------------------------------------
(* The schedule of a task list as the critical-path method defines it, by  *)
(* recursion over the dependency graph (no rounds, no processed sets).     *)

RECURSIVE RefEarlyStart(_, _)
RefEarlyStart(ts, i) ==
    IF PredsIn(ts, i) = {} THEN 0
    ELSE SetMax({RefEarlyStart(ts, j) + ts[j].duration : j \in PredsIn(ts, i)})

RefDuration(ts) == SetMax({RefEarlyStart(ts, i) + ts[i].duration : i \in Indices(ts)})

RECURSIVE RefLateFinish(_, _)
RefLateFinish(ts, i) ==
    IF SuccsIn(ts, i) = {} THEN RefDuration(ts)
    ELSE SetMin({RefLateFinish(ts, j) - ts[j].duration : j \in SuccsIn(ts, i)})

RefSchedule(ts) ==
    [i \in Indices(ts) |->
        [id |-> ts[i].id, name |-> ts[i].name, duration |-> ts[i].duration,
         predecessors |-> ts[i].predecessors,
         earlyStart |-> RefEarlyStart(ts, i),
         earlyFinish |-> RefEarlyStart(ts, i) + ts[i].duration,
         lateStart |-> RefLateFinish(ts, i) - ts[i].duration,
         lateFinish |-> RefLateFinish(ts, i),
         totalFloat |-> RefLateFinish(ts, i) - ts[i].duration - RefEarlyStart(ts, i),
         isCritical |-> RefLateFinish(ts, i) - ts[i].duration = RefEarlyStart(ts, i)]]

RefCritical(ts) ==
    LET c == SelectSeq(RefSchedule(ts), LAMBDA t : t.isCritical)
    IN [k \in Indices(c) |-> c[k].id]

\* the recorded trace starts from the task list as it is now
TraceOfTasks ==
    /\ calculationSteps # <<>>
    /\ Len(calculationSteps[1].tasks) = Len(tasks)
    /\ \A i \in Indices(tasks) :
          LET t == calculationSteps[1].tasks[i]
          IN /\ t.id = tasks[i].id /\ t.name = tasks[i].name
             /\ t.duration = tasks[i].duration
             /\ t.predecessors = tasks[i].predecessors

LastStep == calculationSteps[Len(calculationSteps)]

\* C11: what calculateMPM(false) publishes is determined by the task list
\* alone: calculatedTasks, projectDuration and criticalPath are the schedule,
\* duration and critical identifiers of the current tasks, whatever results,
\* step mode or trace earlier invocations left.  Two invocations in a row on an
\* unchanged list therefore publish the same results.
C11_Idempotent ==
    JustPublishedFull =>
        /\ calculatedTasks = RefSchedule(tasks)
        /\ projectDuration = RefDuration(tasks)
        /\ criticalPath = RefCritical(tasks)

\* a full calculation made while the trace of another task list, stepped
\* forward, was still held
C11_Witness ==
    /\ JustPublishedFull
    /\ calculationSteps # <<>> /\ ~TraceOfTasks
    /\ currentStep > 0
    /\ Len(tasks) >= 2

\* C12: when the recorded trace is the trace of the current task list, the
\* list published by calculateMPM(false) is the last step's snapshot field for
\* field, and criticalPath and projectDuration are the critical identifiers and
\* the maximum earlyFinish of that snapshot.
C12_TraceAgreesWithFull ==
    (JustPublishedFull /\ TraceOfTasks) =>
        /\ calculatedTasks = LastStep.tasks
        /\ LET c == SelectSeq(LastStep.tasks, LAMBDA t : t.isCritical)
           IN criticalPath = [k \in Indices(c) |-> c[k].id]
        /\ projectDuration =
               SetMax({LastStep.tasks[i].earlyFinish : i \in Indices(LastStep.tasks)})

\* both modes have run on a three-task list that has a task with float
C12_Witness ==
    /\ JustPublishedFull /\ TraceOfTasks
    /\ Len(tasks) = 3
    /\ \E i \in Indices(calculatedTasks) : calculatedTasks[i].totalFloat > 0

---------------------------------------------------------------------------
(* The recorded trace *)

\* the steps of the trace whose title starts with kind
StepsOfKind(kind) == {k \in Indices(calculationSteps) : calculationSteps[k].title[1] = kind}

\* the steps of the trace with this title
StepsTitled(title) == {k \in Indices(calculationSteps) : calculationSteps[k].title = title}

\* the tasks the trace was computed for
TraceTasks == calculationSteps[1].tasks

\* C13: a recorded trace for n tasks holds exactly n earlyStart steps and n
\* earlyFinish steps, one of each per task, exactly one projectDuration step,
\* exactly n lateFinish/lateStart steps, one per task, and exactly one float
\* and criticality step, which is the last step.  With the initial step they
\* are all the steps of the trace.
C13_StepCounts ==
    calculationSteps # <<>> =>
        LET n == Len(TraceTasks)
        IN /\ Cardinality(StepsOfKind("Forward Pass - Task")) = n
           /\ Cardinality(StepsOfKind("Forward Pass - Task Finish")) = n
           /\ Cardinality(StepsOfKind("Project Duration")) = 1
           /\ Cardinality(StepsOfKind("Backward Pass - Task")) = n
           /\ StepsOfKind("Calculate Total Float") = {Len(calculationSteps)}
           /\ StepsOfKind("Initialize Tasks") = {1}
           /\ Len(calculationSteps) = 3 * n + 3
           /\ \A i \in Indices(TraceTasks) :
                 /\ Cardinality(StepsTitled(<<"Forward Pass - Task", TraceTasks[i].id>>)) = 1
                 /\ Cardinality(StepsTitled(<<"Forward Pass - Task Finish", TraceTasks[i].id>>)) = 1
                 /\ Cardinality(StepsTitled(<<"Backward Pass - Task", TraceTasks[i].id>>)) = 1

\* the trace of three tasks, one of them final and one not
C13_Witness ==
    /\ JustPublished /\ stepByStepMode
    /\ Len(tasks) = 3
    /\ \E i, j \in Indices(tasks) : SuccsIn(tasks, i) = {} /\ SuccsIn(tasks, j) # {}

\* the step with this title has been recorded at step k or before
RecordedBy(k, title) == \E j \in StepsTitled(title) : j <= k

\* every snapshot shows the table as it was when the step was recorded: a
\* field holds its final value from the step that assigned it and 0 before
SnapshotsFaithful ==
    calculationSteps # <<>> =>
        \A k \in Indices(calculationSteps) : \A i \in Indices(TraceTasks) :
            LET t == calculationSteps[k].tasks[i]
                f == LastStep.tasks[i]
                es == RecordedBy(k, <<"Forward Pass - Task", f.id>>)
                ef == RecordedBy(k, <<"Forward Pass - Task Finish", f.id>>)
                lf == RecordedBy(k, <<"Backward Pass - Task", f.id>>)
                fl == RecordedBy(k, <<"Calculate Total Float">>)
            IN /\ Len(calculationSteps[k].tasks) = Len(TraceTasks)
               /\ t.id = f.id /\ t.name = f.name /\ t.duration = f.duration
               /\ t.predecessors = f.predecessors
               /\ t.earlyStart = IF es THEN f.earlyStart ELSE 0
               /\ t.earlyFinish = IF ef THEN f.earlyFinish ELSE 0
               /\ t.lateFinish = IF lf THEN f.lateFinish ELSE 0
               /\ t.lateStart = IF lf THEN f.lateStart ELSE 0
               /\ t.totalFloat = IF fl THEN f.totalFloat ELSE 0
               /\ t.isCritical = IF fl THEN f.isCritical ELSE FALSE

\* C14: a recorded snapshot is not changed by the assignments made after it
\* was recorded, and nextStep, prevStep and exitStepMode leave the step list
\* as it is.
C14_SnapshotsImmutable ==
    /\ []SnapshotsFaithful
    /\ [][lastOp'.op \in {"nextStep", "prevStep", "exitStepMode"} =>
              calculationSteps' = calculationSteps]_vars

\* the trace of three tasks after stepping into it and leaving step mode
C14_Witness ==
    /\ lastOp = Op("exitStepMode", "done")
    /\ currentStep > 0
    /\ Len(calculationSteps) = 12
    /\ calculationSteps[2].tasks # LastStep.tasks

---------------------------------------------------------------------------
(* Step playback *)

\* the index of the last step
LastIndex == Len(calculationSteps) - 1

\* the critical identifiers and the largest earlyFinish of a snapshot
CriticalIn(ct) ==
    LET c == SelectSeq(ct, LAMBDA t : t.isCritical)
    IN [k \in Indices(c) |-> c[k].id]
LargestFinishIn(ct) == SetMax({ct[i].earlyFinish : i \in Indices(ct)})

\* C15: in step mode currentStep stays within 0 .. N-1 for a trace of N steps;
\* nextStep moves it from i to i+1 and changes nothing at N-1; prevStep moves
\* it from i to i-1 and changes nothing at 0.
C15_StepIndex ==
    /\ [](stepByStepMode => (0 <= currentStep /\ currentStep <= LastIndex))
    /\ [][lastOp'.op = "nextStep" =>
              IF currentStep < LastIndex
              THEN currentStep' = currentStep + 1
              ELSE UNCHANGED <<tasks, results, playback>>]_vars
    /\ [][lastOp'.op = "prevStep" =>
              IF currentStep > 0
              THEN currentStep' = currentStep - 1
              ELSE UNCHANGED <<tasks, results, playback>>]_vars

\* nextStep has been invoked at the last step of a trace after stepping there
C15_Witness ==
    /\ stepByStepMode
    /\ lastOp = Op("nextStep", "noop")
    /\ currentStep = LastIndex /\ currentStep > 0

\* C16: after exitStepMode, invoked at any step index, stepByStepMode is
\* false, calculatedTasks is the last step's snapshot, criticalPath is the
\* identifiers of its critical tasks and projectDuration is its largest
\* earlyFinish.
C16_ExitSnapsToFinal ==
    lastOp.op = "exitStepMode" =>
        /\ ~stepByStepMode
        /\ calculatedTasks = LastStep.tasks
        /\ criticalPath = CriticalIn(LastStep.tasks)
        /\ projectDuration = LargestFinishIn(LastStep.tasks)

\* step mode has been left from a step in the middle of the trace of a
\* schedule that has a task with float
C16_Witness ==
    /\ lastOp.op = "exitStepMode"
    /\ 0 < currentStep /\ currentStep < LastIndex
    /\ \E i \in Indices(calculatedTasks) : ~calculatedTasks[i].isCritical

\* C17: in step mode, at every step index before the last one criticalPath is
\* empty and projectDuration is 0; a nextStep that reaches the last step sets
\* them to the critical identifiers and the largest earlyFinish of the last
\* snapshot, and a prevStep that moves clears them again.
C17_ResultsHiddenUntilLast ==
    /\ []((stepByStepMode /\ currentStep < LastIndex) =>
              (criticalPath = <<>> /\ projectDuration = 0))
    /\ [][(lastOp' = Op("nextStep", "done") /\ currentStep' = LastIndex) =>
              /\ criticalPath' = CriticalIn(LastStep.tasks)
              /\ projectDuration' = LargestFinishIn(LastStep.tasks)]_vars
    /\ [][lastOp' = Op("prevStep", "done") =>
              (criticalPath' = <<>> /\ projectDuration' = 0)]_vars

\* prevStep has left the last step, where the final values were displayed
C17_Witness ==
    /\ stepByStepMode
    /\ lastOp = Op("prevStep", "done")
    /\ currentStep = LastIndex - 1
    /\ criticalPath = <<>> /\ projectDuration = 0
    /\ calculatedTasks # <<>>

---------------------------------------------------------------------------
(* The engine on arbitrary task lists (SpecEngine) *)

\* the task list in the order given by the permutation pi of its indices
Reordered(ts, pi) == [k \in Indices(ts) |-> ts[pi[k]]]

\* C18: the numbers computed do not depend on the order of the task list: for
\* every reordering of a list that calculateMPM has scheduled, calculateMPM
\* schedules the reordered list too, gives every task the same record (the
\* same earlyStart, earlyFinish, lateStart, lateFinish, totalFloat and
\* isCritical), and finds the same project duration.
C18_OrderIndependent ==
    JustPublished =>
        \A pi \in Permutations(Indices(tasks)) :
            LET o == Outcome(Reordered(tasks, pi))
                w == RunEngine(Reordered(tasks, pi))
            IN /\ o.outcome = "published"
               /\ w.calculated = Reordered(Schedule, pi)
               /\ w.maxEarlyFinish = LargestFinishIn(Schedule)

\* a list of three tasks of different durations has been scheduled in which a
\* task stands before its predecessor, and there is a task with float
C18_Witness ==
    /\ JustPublished
    /\ Len(tasks) = 3
    /\ \E i, j \in Indices(tasks) : i < j /\ j \in PredsIn(tasks, i)
    /\ \E i, j \in Indices(tasks) : tasks[i].duration # tasks[j].duration
    /\ \E i \in Indices(Schedule) : Schedule[i].totalFloat > 0

\* two tasks of the list have the same identifier
HasDuplicateIds(ts) == \E i, j \in Indices(ts) : i # j /\ ts[i].id = ts[j].id

\* the invocation got past the empty check and validateTasks
PastValidation ==
    /\ lastOp.op = "calculateMPM"
    /\ lastOp.outcome \in {"forwardAbort", "published"}

\* C19: calculateMPM ends on every task list.  On a list that gets past
\* validation the forward loop and the backward loop each run at most
\* 2 * (number of tasks) rounds; if the list repeats an identifier or has a
\* dependency cycle, a forward round makes no progress, the invocation reports
\* "Unable to calculate forward pass" and changes no result or playback state.
C19_Terminates ==
    /\ [](PastValidation =>
             LET w == RunEngine(tasks)
             IN /\ w.forwardRounds <= 2 * Len(tasks)
                /\ w.backwardRounds <= 2 * Len(tasks)
                /\ w.aborted <=> lastOp.outcome = "forwardAbort")
    /\ []((PastValidation /\ (HasDuplicateIds(tasks) \/ HasCycle(tasks))) =>
             (lastOp.outcome = "forwardAbort" /\ alertMsg = AlertForward))
    /\ [][lastOp' = Op("calculateMPM", "forwardAbort") =>
             UNCHANGED <<tasks, results, playback>>]_vars

\* a list with a repeated identifier and a dependency cycle that validateTasks
\* accepted, stopped by the forward pass
C19_Witness ==
    /\ lastOp = Op("calculateMPM", "forwardAbort")
    /\ alertMsg = AlertForward
    /\ HasDuplicateIds(tasks) /\ HasCycle(tasks)
    /\ Len(tasks) = 3

---------------------------------------------------------------------------
(* The diamond example (SpecDiamond) *)

\* C21: on the diamond list A(3,[]), B(2,[A]), C(5,[A]), D(1,[B,C]) a
\* calculateMPM(false) publishes projectDuration = 9, totalFloat 3 for B with
\* B not critical, and a criticalPath that consists of exactly A, C and D.
C21_Diamond ==
    JustPublishedFull =>
        /\ projectDuration = 9
        /\ \E i \in Indices(calculatedTasks) : calculatedTasks[i].id = "B"
        /\ \A i \in Indices(calculatedTasks) :
              calculatedTasks[i].id = "B" =>
                  (calculatedTasks[i].totalFloat = 3 /\ ~calculatedTasks[i].isCritical)
        /\ Range(criticalPath) = {"A", "C", "D"}
        /\ Len(criticalPath) = 3

\* the diamond, listed as A, B, C, D, has been calculated in full mode
C21_Witness ==
    /\ JustPublishedFull
    /\ tasks = DiamondTasks
    /\ Len(calculatedTasks) = 4

---------------------------------------------------------------------------
(* The validator as a gate (SpecEngine) *)

\* the last handler was a calculateMPM on a non-empty list, so that
\* validateTasks was called; it returned false iff the outcome is "invalid"
Validated == lastOp.op = "calculateMPM" /\ Len(tasks) > 0
ReturnedTrue == lastOp.outcome # "invalid"

C23_FallbackUnreachable ==
    PastValidation =>
        LET w == RunEngine(tasks)
        IN /\ ~w.fallback
           /\ ~w.aborted =>
                 /\ w.processedBackward = Range(ids(tasks))
                 /\ Cardinality(w.processedBackward) = Len(tasks)
                 /\ w.backwardRounds < w.maxIterations

\* a list of three tasks has been scheduled whose backward loop needed more
\* than one round
C23_Witness ==
    /\ JustPublished
    /\ Len(tasks) = 3
    /\ RunEngine(tasks).backwardRounds >= 2
    /\ ~RunEngine(tasks).fallback

---------------------------------------------------------------------------
(* Order and contents of the trace *)

\* the position in the trace of the step with this title
StepAt(title) == CHOOSE k \in StepsTitled(title) : TRUE

ForwardSteps == StepsOfKind("Forward Pass - Task") \cup StepsOfKind("Forward Pass - Task Finish")
BackwardSteps == StepsOfKind("Backward Pass - Task")
DurationStep == StepAt(<<"Project Duration">>)

\* C24: in a recorded trace every forward-pass step precedes the Project
\* Duration step, which precedes every backward-pass step, which all precede
\* the float step, the last one; the earlyStart step of a task comes after
\* the earlyFinish steps of all its predecessors (and before its own
\* earlyFinish step), and the backward step of a task comes after the
\* backward steps of all its successors.
C24_TraceOrder ==
    calculationSteps # <<>> =>
        /\ \A k \in ForwardSteps : k < DurationStep
        /\ \A k \in BackwardSteps : DurationStep < k /\ k < Len(calculationSteps)
        /\ StepsOfKind("Calculate Total Float") = {Len(calculationSteps)}
        /\ \A i \in Indices(TraceTasks) :
              /\ StepAt(<<"Forward Pass - Task", TraceTasks[i].id>>)
                    < StepAt(<<"Forward Pass - Task Finish", TraceTasks[i].id>>)
              /\ \A j \in PredsIn(TraceTasks, i) :
                    StepAt(<<"Forward Pass - Task Finish", TraceTasks[j].id>>)
                        < StepAt(<<"Forward Pass - Task", TraceTasks[i].id>>)
              /\ \A j \in SuccsIn(TraceTasks, i) :
                    StepAt(<<"Backward Pass - Task", TraceTasks[j].id>>)
                        < StepAt(<<"Backward Pass - Task", TraceTasks[i].id>>)

\* the trace of three tasks of which one stands in the list before its
\* predecessor and one stands after its successor
C24_Witness ==
    /\ JustPublished /\ stepByStepMode
    /\ Len(TraceTasks) = 3
    /\ \E i, j \in Indices(tasks) : i < j /\ j \in PredsIn(tasks, i)
    /\ \E i, j \in Indices(tasks) : i < j /\ i \in PredsIn(tasks, j)

\* the snapshot of step k
SnapshotAt(k) == calculationSteps[k].tasks

\* C25: in a recorded trace the first snapshot has every derived field 0 or
\* false for every task; every snapshot up to and including the Project
\* Duration step has all lateStart and lateFinish 0; every snapshot before the
\* last step has all totalFloat 0 and all isCritical false; and a task has
\* earlyStart 0 and earlyFinish 0 in every snapshot before its own
\* forward-pass step.
C25_ZeroUntilComputed ==
    calculationSteps # <<>> =>
        /\ \A i \in Indices(SnapshotAt(1)) :
              LET t == SnapshotAt(1)[i]
              IN /\ t.earlyStart = 0 /\ t.earlyFinish = 0
                 /\ t.lateStart = 0 /\ t.lateFinish = 0
                 /\ t.totalFloat = 0 /\ t.isCritical = FALSE
        /\ \A k \in 1..DurationStep : \A i \in Indices(SnapshotAt(k)) :
              SnapshotAt(k)[i].lateStart = 0 /\ SnapshotAt(k)[i].lateFinish = 0
        /\ \A k \in 1..(Len(calculationSteps) - 1) : \A i \in Indices(SnapshotAt(k)) :
              SnapshotAt(k)[i].totalFloat = 0 /\ SnapshotAt(k)[i].isCritical = FALSE
        /\ \A i \in Indices(TraceTasks) :
              \A k \in 1..(StepAt(<<"Forward Pass - Task", TraceTasks[i].id>>) - 1) :
                  SnapshotAt(k)[i].earlyStart = 0 /\ SnapshotAt(k)[i].earlyFinish = 0

\* the trace of three tasks at whose end a task starts late, a task has
\* float and every task has a late finish
C25_Witness ==
    /\ JustPublished /\ stepByStepMode
    /\ Len(TraceTasks) = 3
    /\ \E i \in Indices(LastStep.tasks) : LastStep.tasks[i].earlyStart > 0
    /\ \E i \in Indices(LastStep.tasks) : LastStep.tasks[i].totalFloat > 0
    /\ \A i \in Indices(LastStep.tasks) : LastStep.tasks[i].lateFinish > 0

---------------------------------------------------------------------------
(* Mode dispatch and frame of calculateMPM *)

\* the task list with every derived field at 0 or false
ZeroTable(ts) ==
    [i \in Indices(ts) |->
        [id |-> ts[i].id, name |-> ts[i].name, duration |-> ts[i].duration,
         predecessors |-> ts[i].predecessors,
         earlyStart |-> 0, earlyFinish |-> 0, lateStart |-> 0, lateFinish |-> 0,
         totalFloat |-> 0, isCritical |-> FALSE]]

\* C26: a calculateMPM(true) that succeeds ends in step mode at the first
\* step: stepByStepMode is true, currentStep is 0, calculatedTasks is the first
\* snapshot of the new trace (the task list with all derived fields 0),
\* criticalPath is empty and projectDuration is 0; a calculateMPM(false) that
\* succeeds ends with stepByStepMode false, also when it starts in step mode.
C26_ModeDispatch ==
    /\ [][(calculateStep /\ lastOp'.outcome = "published") =>
             /\ stepByStepMode'
             /\ currentStep' = 0
             /\ calculationSteps' # <<>>
             /\ calculatedTasks' = calculationSteps'[1].tasks
             /\ calculatedTasks' = ZeroTable(tasks)
             /\ criticalPath' = <<>>
             /\ projectDuration' = 0]_vars
    /\ [][(calculateFull /\ lastOp'.outcome = "published") => ~stepByStepMode']_vars

\* step mode has just been entered on a list of three tasks
C26_Witness ==
    /\ JustPublished /\ stepByStepMode
    /\ currentStep = 0
    /\ Len(tasks) = 3
    /\ calculatedTasks = ZeroTable(tasks)
    /\ criticalPath = <<>> /\ projectDuration = 0

\* entry i of the scheduled list ct is the task at position i of ts
SameTaskAt(ct, ts, i) ==
    /\ ct[i].id = ts[i].id /\ ct[i].name = ts[i].name
    /\ ct[i].duration = ts[i].duration
    /\ ct[i].predecessors = ts[i].predecessors

\* ct lists the tasks of ts, all of them and in the same order
SameTasks(ct, ts) ==
    /\ Len(ct) = Len(ts)
    /\ \A i \in Indices(ts) : SameTaskAt(ct, ts, i)

\* C27: calculateMPM does not change the task list, and what it publishes
\* drops no task: the published list, and in step mode every snapshot of the
\* new trace, has the length and order of the task list, each entry with the
\* id, name, duration and predecessors of the task at its position.
C27_InputPreserved ==
    /\ [][lastOp'.op = "calculateMPM" => tasks' = tasks]_vars
    /\ [](JustPublished =>
             /\ SameTasks(calculatedTasks, tasks)
             /\ stepByStepMode =>
                   \A k \in Indices(calculationSteps) : SameTasks(SnapshotAt(k), tasks))

\* a list of three tasks with dependencies has been calculated in step mode
C27_Witness ==
    /\ JustPublished /\ stepByStepMode
    /\ Len(tasks) = 3 /\ Len(calculatedTasks) = 3
    /\ Len(calculationSteps) = 12
    /\ \E i \in Indices(tasks) : Len(tasks[i].predecessors) = 2

---------------------------------------------------------------------------
(* The task editor (SpecEdits) *)

\* C28: starting from a task list with pairwise distinct identifiers, no
\* sequence of edits leaves two tasks with the same identifier.
C28_UniqueIds == ~HasDuplicateIds(tasks)

\* C29: displayed results are never stale: whenever calculatedTasks is
\* non-empty, its entries have the ids, names, durations and predecessors of
\* the current task list.
C29_NeverStale == calculatedTasks # <<>> => SameTasks(calculatedTasks, tasks)

\* every predecessor of every task of ts is an existing other task, listed once
WellFormed(ts) ==
    \A i \in Indices(ts) :
        /\ \A k \in Indices(ts[i].predecessors) :
              /\ \E j \in Indices(ts) : ts[j].id = ts[i].predecessors[k]
              /\ ts[i].predecessors[k] # ts[i].id
        /\ \A k, l \in Indices(ts[i].predecessors) :
              ts[i].predecessors[k] = ts[i].predecessors[l] => k = l

\* C30: the edits never create a dangling reference: starting from a list in
\* which every predecessor names an existing task, after any sequence of edits
\* (addPredecessor choosing among the offered options) every predecessor still
\* names an existing task, no task lists itself and no predecessor list holds
\* a duplicate.
C30_NoDanglingByEdits == WellFormed(tasks)

\* the edits are used up on a removeTask, an addTask that repeated an
\* identifier and an addPredecessor on the new task
C30_Witness ==
    /\ editsLeft = 0
    /\ \E i, j \in Indices(tasks) :
          /\ i < j
          /\ tasks[i].id = tasks[j].id
          /\ tasks[j].predecessors # <<>>

---------------------------------------------------------------------------
(* Editing, then calculating (SpecEditCalc) *)

\* C31: on every non-empty task list on which validateTasks returns true,
\* calculateMPM completes the forward pass with every task finalized, without
\* the "Unable to calculate forward pass" report, and publishes a schedule or
\* a trace.
C31_ValidatedPublishes ==
    PastValidation =>
        LET w == RunEngine(tasks)
        IN /\ lastOp.outcome = "published"
           /\ alertMsg = NoAlert
           /\ ~w.aborted
           /\ Cardinality(w.processedTasks) = Len(tasks)

---------------------------------------------------------------------------
(* The published schedule as a schedule (SpecEngine) *)

\* C32: the published schedule respects every dependency: for every task t
\* and every predecessor p of t, earlyFinish(p) <= earlyStart(t) and
\* lateFinish(p) <= lateStart(t); and when no duration is negative every
\* task has 0 <= earlyStart and lateFinish <= the project duration, which in
\* full mode is the published projectDuration.  Every predecessor listed by
\* a task of the list is a task of the schedule, so no dependency is skipped.
C32_DependenciesRespected ==
    JustPublished =>
        /\ \A i \in Indices(Schedule) :
              /\ \A j \in PredsIn(Schedule, i) :
                    /\ Schedule[j].earlyFinish <= Schedule[i].earlyStart
                    /\ Schedule[j].lateFinish <= Schedule[i].lateStart
              /\ (\A k \in Indices(tasks) : tasks[k].duration >= 0) =>
                    /\ 0 <= Schedule[i].earlyStart
                    /\ Schedule[i].lateFinish <= LargestFinishIn(Schedule)
                    /\ ~stepByStepMode => Schedule[i].lateFinish <= projectDuration
        /\ \A i \in Indices(tasks) : \A k \in Indices(tasks[i].predecessors) :
              \E j \in PredsIn(Schedule, i) : Schedule[j].id = tasks[i].predecessors[k]

\* a published schedule of three tasks in which a predecessor finishes
\* strictly before its successor starts, early and late
C32_Witness ==
    /\ JustPublishedFull
    /\ Len(calculatedTasks) = 3
    /\ \E i \in Indices(calculatedTasks) : \E j \in PredsIn(calculatedTasks, i) :
          /\ calculatedTasks[j].earlyFinish < calculatedTasks[i].earlyStart
          /\ calculatedTasks[j].lateFinish < calculatedTasks[i].lateStart
          /\ calculatedTasks[i].duration # calculatedTasks[j].duration

---------------------------------------------------------------------------
(* The critical path of an edited list (Spec) *)

\* C33: the critical path published for a validated non-empty task list is
\* non-empty: it has a task without predecessors and a terminal task (no
\* successors) whose earlyFinish is the project duration, and every critical
\* task that has successors has a critical successor.
C33_CriticalPathShape ==
    JustPublished =>
        LET crit == {i \in Indices(Schedule) : Schedule[i].isCritical}
        IN /\ crit # {}
           /\ \E i \in crit : Schedule[i].predecessors = <<>>
           /\ \E i \in crit :
                 /\ SuccsIn(Schedule, i) = {}
                 /\ Schedule[i].earlyFinish = LargestFinishIn(Schedule)
                 /\ ~stepByStepMode => Schedule[i].earlyFinish = projectDuration
           /\ \A i \in crit :
                 SuccsIn(Schedule, i) # {} => SuccsIn(Schedule, i) \cap crit # {}
           /\ ~stepByStepMode =>
                 /\ criticalPath # <<>>
                 /\ Range(criticalPath) = {Schedule[i].id : i \in crit}

===========================================================================
